---- MODULE Spec2Model ----
(***************************************************************************)
(* Travel_Guide: a prompt builder, a single-shot call of a generation API  *)
(* and a report file, behind a command-line front-end (src/main.py) and an *)
(* HTTP front-end (src/server.py).                                         *)
(*                                                                         *)
(* Text is a sequence of one-character strings, so that strip, split,      *)
(* join, slicing, int() and str() are computed character by character.     *)
(***************************************************************************)
EXTENDS Integers, Sequences, FiniteSets, TLC

VARIABLES
    envKey,     \* os.environ["GOOGLE_API_KEY"] after load_dotenv, or Unset
    envModel,   \* os.environ["MODEL"] after load_dotenv, or Unset
    reports,    \* the reports directory: file name -> file content
    calls,      \* history of the direct Persistence calls, oldest first
    http,       \* GuideHandler.do_POST: position, request, locals, responses
    cli,        \* main.py main(): position, args, locals, streams, exit code
    call,       \* a direct call of a pure function: its name and arguments
    result      \* what that call returned

vars == <<envKey, envModel, reports, calls, http, cli, call, result>>

----------------------------------------------------------------------------
(* Python text primitives.                                                 *)

\* None where a str is expected; no text has a multi-character element.
None == <<"<None>">>

\* An environment variable that is not set (os.getenv returns None).
Unset == None

Digits == {"0", "1", "2", "3", "4", "5", "6", "7", "8", "9"}

DigitChars == <<"0", "1", "2", "3", "4", "5", "6", "7", "8", "9">>

\* The letters the model's texts are written with.
Letters == {"a", "b", "c", "d", "e", "f", "g", "h", "i", "j", "k", "l", "m",
            "n", "o", "p", "q", "r", "s", "t", "u", "v", "w", "x", "y", "z",
            "A", "B", "D", "I", "M", "N", "R", "S", "U"}

\* str.isalnum() on one character.
isalnum(ch) == ch \in Letters \cup Digits

\* str.isspace() on one character: what strip() and split() treat as blank.
isspace(ch) == ch \in {" ", "\t", "\n"}

\* bool(s) of a str or None.
Truthy(s) == s # None /\ s # <<>>

\* Python's `a or b` on str-or-None operands.
Or(a, b) == IF Truthy(a) THEN a ELSE b

\* 1..Len(s) as a sequence, to select positions from.
Positions(s) == [i \in 1..Len(s) |-> i]

\* str.strip(): from the first to the last character that is not blank.
strip(s) ==
    IF \A i \in 1..Len(s) : isspace(s[i]) THEN <<>>
    ELSE LET first == CHOOSE i \in 1..Len(s) :
                          ~isspace(s[i]) /\ \A j \in 1..(i - 1) : isspace(s[j])
             last  == CHOOSE i \in 1..Len(s) :
                          ~isspace(s[i]) /\ \A j \in (i + 1)..Len(s) : isspace(s[j])
         IN  SubSeq(s, first, last)

\* str.split() without arguments: the maximal runs of non-blank characters.
split(s) ==
    LET IsStart(i) == ~isspace(s[i]) /\ (i = 1 \/ isspace(s[i - 1]))
        IsEnd(i)   == ~isspace(s[i]) /\ (i = Len(s) \/ isspace(s[i + 1]))
        starts == SelectSeq(Positions(s), IsStart)
        ends   == SelectSeq(Positions(s), IsEnd)
    IN  [k \in 1..Len(starts) |-> SubSeq(s, starts[k], ends[k])]

\* sep.join(words), joining the two halves of the list.
RECURSIVE join(_, _)
join(sep, words) ==
    IF words = <<>> THEN <<>>
    ELSE IF Len(words) = 1 THEN words[1]
    ELSE LET h == Len(words) \div 2
         IN  join(sep, SubSeq(words, 1, h)) \o sep \o join(sep, SubSeq(words, h + 1, Len(words)))

\* s[:n]
Slice(s, n) == SubSeq(s, 1, IF Len(s) < n THEN Len(s) ELSE n)

----------------------------------------------------------------------------
(* sanitize_filename, the same text in main.py and server.py.              *)

\* safe[:100]
NameLimit == 100

travel_guide == <<"t", "r", "a", "v", "e", "l", "_", "g", "u", "i", "d", "e">>

\* The characters the first line keeps.
KeepChar(ch) == isalnum(ch) \/ ch \in {" ", "-", "_"}

\* The last line without its fallback.
PickNameNoFallback(safe) == Slice(safe, NameLimit)

\* The last line: safe[:100] if safe else "travel_guide".
PickName(safe) == IF safe # <<>> THEN Slice(safe, NameLimit) ELSE travel_guide

\* main.py
sanitize_filename(name) ==
    LET safe1 == SelectSeq(name, KeepChar)
        safe2 == join(<<"_">>, split(strip(safe1)))
    IN  PickName(safe2)

\* server.py
server_sanitize_filename(name) ==
    LET safe1 == SelectSeq(name, KeepChar)
        safe2 == join(<<"_">>, split(strip(safe1)))
    IN  IF safe2 # <<>> THEN Slice(safe2, NameLimit) ELSE travel_guide

----------------------------------------------------------------------------
(* build_prompt. The prompt is the text of the f-string: each stretch of    *)
(* the template between two placeholders is one element, written with its  *)
(* first words, and every interpolated value is spliced in character by     *)
(* character, so a value never equals a stretch of the template.            *)

Rome     == <<"R", "o", "m", "e">>
RomeBang == <<" ", "R", "o", "m", "e", "!">>
Bangs    == <<"!", "!">>
May      == <<"M", "a", "y">>
INR      == <<"I", "N", "R">>
USD      == <<"U", "S", "D">>

\* Optional[int]
NoneInt == [some |-> FALSE, v |-> 0]
Some(n) == [some |-> TRUE, v |-> n]

\* str(n) of an int, as an f-string formats it.
RECURSIVE str(_)
str(n) ==
    IF n < 0 THEN <<"-">> \o str(0 - n)
    ELSE IF n < 10 THEN <<DigitChars[n + 1]>>
    ELSE str(n \div 10) \o <<DigitChars[(n % 10) + 1]>>

T_intro    == "\nYou are an expert travel planner. ... for the destination: "
T_title    == ".\n\nOutput structure ...\n\n1. Title: \"Rupam's Travel Guide: "
T_costs    == "\"\n2. One-paragraph overview ... 5. Approximate costs in "
T_total    == ":\n   - Daily budget ranges ... - Example total for "
T_hotels   == " days\n6. Best hotels in the area: ... rough price range in "
T_months   == "; include neighborhood context; ... 8. Month-wise precautions: ... clothing). "
T_itinerary == "\n9. Itinerary for "
T_guidance == " days: for each day, ... - Do not include any system or meta-instructions in the final answer.\n"
T_end      == "\n"
T_month_head  == "If the user-specified month is provided, highlight guidance for "
T_month_tail  == " explicitly."
T_budget_head == "Assume a daily budget of around "
T_budget_tail == " and adjust recommendations accordingly."

specific_month_line(month) ==
    IF Truthy(month) THEN <<T_month_head>> \o month \o <<T_month_tail>> ELSE <<>>

\* The budget line under `if daily_budget` instead of `is not None`.
budget_line_if_truthy(daily_budget, currency) ==
    IF daily_budget.some /\ daily_budget.v # 0
    THEN <<T_budget_head>> \o str(daily_budget.v) \o <<" ">> \o currency \o <<T_budget_tail>>
    ELSE <<>>

budget_line(daily_budget, currency) ==
    IF daily_budget # NoneInt
    THEN <<T_budget_head>> \o str(daily_budget.v) \o <<" ">> \o currency \o <<T_budget_tail>>
    ELSE <<>>

\* main.py
build_prompt(destination, days, month, currency, daily_budget) ==
    <<T_intro>> \o destination \o <<T_title>> \o destination
        \o <<T_costs>> \o currency \o <<T_total>> \o str(days)
        \o <<T_hotels>> \o currency \o <<T_months>> \o specific_month_line(month)
        \o <<T_itinerary>> \o str(days) \o <<T_guidance>>
        \o budget_line(daily_budget, currency) \o <<T_end>>

\* server.py
server_build_prompt(destination, days, month, currency, daily_budget) ==
    LET month_line ==
            IF Truthy(month) THEN <<T_month_head>> \o month \o <<T_month_tail>> ELSE <<>>
        budget ==
            IF daily_budget # NoneInt
            THEN <<T_budget_head>> \o str(daily_budget.v) \o <<" ">> \o currency
                     \o <<T_budget_tail>>
            ELSE <<>>
    IN  <<T_intro>> \o destination \o <<T_title>> \o destination
            \o <<T_costs>> \o currency \o <<T_total>> \o str(days)
            \o <<T_hotels>> \o currency \o <<T_months>> \o month_line
            \o <<T_itinerary>> \o str(days) \o <<T_guidance>>
            \o budget \o <<T_end>>

----------------------------------------------------------------------------
(* Python values decoded from a JSON body, and the conversions applied to  *)
(* them.                                                                   *)

JAbsent  == [t |-> "absent", s |-> <<>>, n |-> 0]   \* the key is not in the object
JUnread  == [t |-> "unread", s |-> <<>>, n |-> 0]   \* the handler ended before reading it
JNull    == [t |-> "null", s |-> <<>>, n |-> 0]
JStr(s)  == [t |-> "str", s |-> s, n |-> 0]
JInt(n)  == [t |-> "int", s |-> <<>>, n |-> n]
JList(n) == [t |-> "list", s |-> <<>>, n |-> n]      \* a list of n elements

\* dict.get(key): None for a missing key.
get(v) == IF v = JAbsent THEN JNull ELSE v

\* bool(v)
IsTrue(v) ==
    CASE v.t = "str"  -> v.s # <<>>
      [] v.t = "int"  -> v.n # 0
      [] v.t = "list" -> v.n > 0
      [] OTHER        -> FALSE

\* Python's `a or b` on decoded values.
OrElse(a, b) == IF IsTrue(a) THEN a ELSE b

\* The value of a numeral made of decimal digits.
RECURSIVE DigitsValue(_)
DigitsValue(ds) ==
    IF ds = <<>> THEN 0
    ELSE 10 * DigitsValue(SubSeq(ds, 1, Len(ds) - 1))
           + (CHOOSE k \in 0..9 : DigitChars[k + 1] = ds[Len(ds)])

\* int(s) of a str: blanks stripped, an optional sign, then decimal digits
\* (digit grouping with underscores is not modelled). ok = FALSE is ValueError.
ParseInt(s) ==
    LET t == strip(s)
        signed == t # <<>> /\ t[1] \in {"+", "-"}
        body == IF signed THEN Tail(t) ELSE t
        ok == body # <<>> /\ \A i \in 1..Len(body) : body[i] \in Digits
    IN  IF ~ok THEN [ok |-> FALSE, v |-> 0]
        ELSE [ok |-> TRUE,
              v |-> IF signed /\ t[1] = "-" THEN 0 - DigitsValue(body) ELSE DigitsValue(body)]

\* int(v) of a decoded value; ok = FALSE is ValueError or TypeError.
int(v) ==
    CASE v.t = "int" -> [ok |-> TRUE, v |-> v.n]
      [] v.t = "str" -> ParseInt(v.s)
      [] OTHER       -> [ok |-> FALSE, v |-> 0]

\* max(1, n)
Max1(n) == IF n < 1 THEN 1 ELSE n

----------------------------------------------------------------------------
(* The environment, the generation API and the reports directory.          *)

\* os.getenv(name)
getenv(name) == IF name = "MODEL" THEN envModel ELSE envKey

\* main.py get_env_variable: None unless the value has a non-blank character.
get_env_variable(name) ==
    LET value == getenv(name)
    IN  IF Truthy(value) /\ strip(value) # <<>> THEN value ELSE None

\* "gemini-1.5-flash"
DefaultModel ==
    <<"g", "e", "m", "i", "n", "i", "-", "1", ".", "5", "-", "f", "l", "a", "s", "h">>

\* What generate_content can do: raise, or return a result whose text is None
\* or a text with blanks around it.
GenOutcomes ==
    {[raised |-> TRUE, text |-> None],
     [raised |-> FALSE, text |-> None],
     [raised |-> FALSE, text |-> <<" ", "A", "\n">>]}

\* (getattr(result, "text", None) or "").strip()
Content(outcome) == strip(Or(outcome.text, <<>>))

\* What the generation call was made with: the model identifier and the
\* arguments of build_prompt, whose result is the prompt. NoSent before the call.
Sent(model, destination, days, month, currency, daily_budget) ==
    [model |-> model, destination |-> destination, days |-> days, month |-> month,
     currency |-> currency, daily_budget |-> daily_budget]

NoSent == Sent(None, <<>>, 0, None, <<>>, NoneInt)

\* One step a run has taken, in order: "generate", "write", "stdout", "stderr".
Event(ev, text) == [ev |-> ev, text |-> text]

\* A directory without files.
EmptyDir == [f \in {} |-> <<>>]

\* Path.write_text: the file is created or replaced.
write_text(dir, filename, content) ==
    [f \in DOMAIN dir \cup {filename} |-> IF f = filename THEN content ELSE dir[f]]

\* A write that leaves an existing file as it is.
write_text_if_new(dir, filename, content) ==
    [f \in DOMAIN dir \cup {filename} |-> IF f \in DOMAIN dir THEN dir[f] ELSE content]

\* ".md"
Ext == <<".", "m", "d">>

\* Persistence that never replaces a report.
save_output_markdown_keep(dir, destination, content) ==
    LET filename == sanitize_filename(destination) \o Ext
    IN  [dir |-> write_text_if_new(dir, filename, content),
         filename |-> filename,
         out_path |-> <<"reports/">> \o filename]

\* main.py save_output_markdown, when mkdir and write_text return.
save_output_markdown(dir, destination, content) ==
    LET filename == sanitize_filename(destination) \o Ext
    IN  [dir |-> write_text(dir, filename, content),
         filename |-> filename,
         out_path |-> <<"reports/">> \o filename]

\* server.py lines 141-143, when mkdir and write_text return.
server_persist(dir, destination, content) ==
    LET filename == server_sanitize_filename(destination) \o Ext
    IN  [dir |-> write_text(dir, filename, content),
         filename |-> filename,
         out_path |-> <<"PROJECT_DIR/reports/">> \o filename]

\* mkdir or write_text either returns or raises OSError before the file is
\* touched (a name the file system refuses, no permission, no space).
WriteOutcomes == {"ok", "raise"}

----------------------------------------------------------------------------
(* The HTTP front-end: GuideHandler.do_POST on /api/generate.              *)

Body(kind, destination, days, month, currency, budget, model) ==
    [kind |-> kind, destination |-> destination, days |-> days, month |-> month,
     currency |-> currency, budget |-> budget, model |-> model]

NoBody == Body("none", JUnread, JUnread, JUnread, JUnread, JUnread, JUnread)

HttpIdle ==
    [pc |-> "idle", req |-> NoBody, destination |-> <<>>, days |-> 0, month |-> None,
     currency |-> <<>>, daily_budget |-> NoneInt, model |-> <<>>, content |-> <<>>,
     responses |-> <<>>, trace |-> <<>>, sent |-> NoSent, genRaised |-> FALSE,
     crashed |-> FALSE]

\* The body as far as the handler read it: the fields after the first `reads`
\* (in the order the code reads them) were never looked at.
Received(body, reads) ==
    Body(body.kind,
         IF reads >= 1 THEN body.destination ELSE JUnread,
         IF reads >= 2 THEN body.days ELSE JUnread,
         IF reads >= 3 THEN body.month ELSE JUnread,
         IF reads >= 4 THEN body.currency ELSE JUnread,
         IF reads >= 5 THEN body.budget ELSE JUnread,
         IF reads >= 6 THEN body.model ELSE JUnread)

\* _send_json(status, data)
Response(status, ok, markdown, saved, error) ==
    [status |-> status, ok |-> ok, markdown |-> markdown, saved |-> saved, error |-> error]

\* The handler returned after one _send_json.
Responded(h, response) ==
    [h EXCEPT !.pc = "done", !.responses = Append(@, response)]

\* An exception left do_POST: the server logs it and closes the connection.
Crashed(h) == [h EXCEPT !.pc = "done", !.crashed = TRUE]

\* Lines 96-100: days = data.get("days") or 4; max(1, int(days)), 4 on failure.
server_days(v) ==
    LET days == OrElse(get(v), JInt(4))
    IN  IF int(days).ok THEN Max1(int(days).v) ELSE 4

\* Lines 105-109: int(budget) unless None; None on failure.
server_budget(v) ==
    IF get(v) = JNull THEN NoneInt
    ELSE IF int(get(v)).ok THEN Some(int(get(v)).v) ELSE NoneInt

\* os.getenv(name) as a Python value.
getenv_value(name) == IF getenv(name) = None THEN JNull ELSE JStr(getenv(name))

\* Line 111, before .strip(): data.get("model") or os.getenv("MODEL") or the default.
server_model(v) == OrElse(OrElse(get(v), getenv_value("MODEL")), JStr(DefaultModel))

\* Lines 85-124 for one request body: up to the first response, the first
\* uncaught exception, or the built prompt.
Handle(body) ==
    LET h0 == [HttpIdle EXCEPT !.req = Received(body, 0)]
        destination0 == OrElse(get(body.destination), JStr(<<>>))
        destination == strip(destination0.s)
        h1 == [HttpIdle EXCEPT !.req = Received(body, 1)]
        month0 == OrElse(get(body.month), JStr(<<>>))
        month == Or(strip(month0.s), None)
        currency0 == OrElse(get(body.currency), JStr(INR))
        currency == Or(strip(currency0.s), INR)
        model0 == server_model(body.model)
        h6 == [HttpIdle EXCEPT !.req = Received(body, 6),
                               !.destination = destination,
                               !.days = server_days(body.days),
                               !.month = month,
                               !.currency = currency,
                               !.daily_budget = server_budget(body.budget),
                               !.model = strip(model0.s)]
    IN  IF body.kind = "unparsable"
        THEN Responded(h0, Response(400, FALSE, None, None, "Invalid JSON"))
        ELSE IF body.kind = "nonobject" THEN Crashed(h0)
        ELSE IF destination0.t # "str" THEN Crashed(h1)
        ELSE IF destination = <<>>
        THEN Responded(h1, Response(400, FALSE, None, None, "'destination' is required"))
        ELSE IF month0.t # "str"
        THEN Crashed([HttpIdle EXCEPT !.req = Received(body, 3), !.destination = destination,
                                      !.days = server_days(body.days)])
        ELSE IF currency0.t # "str"
        THEN Crashed([HttpIdle EXCEPT !.req = Received(body, 4), !.destination = destination,
                                      !.days = server_days(body.days), !.month = month])
        ELSE IF model0.t # "str"
        THEN Crashed([h6 EXCEPT !.model = <<>>])
        ELSE IF ~Truthy(getenv("GOOGLE_API_KEY"))
        THEN Responded(h6, Response(500, FALSE, None, None, "GOOGLE_API_KEY not set"))
        ELSE [h6 EXCEPT !.pc = "generating"]

\* What an HTTP client can post: bytes that are no JSON, JSON that is no
\* object, no body at all, or an object with any of these field values.
HttpBodies ==
    {Body(k, JAbsent, JAbsent, JAbsent, JAbsent, JAbsent, JAbsent) :
         k \in {"unparsable", "nonobject", "empty"}}
    \cup
    {Body("object", destination, days, month, currency, budget, model) :
         destination \in {JAbsent, JNull, JStr(<<>>), JStr(<<" ">>), JInt(0), JInt(5),
                          JList(1), JStr(RomeBang), JStr(Bangs)},
         days \in {JAbsent, JInt(0), JInt(-2), JInt(3), JStr(<<" ", "7">>)},
         month \in {JAbsent, JStr(May), JInt(5)},
         currency \in {JAbsent, JInt(5)},
         budget \in {JAbsent, JInt(0), JStr(<<"x">>)},
         model \in {JAbsent, JStr(<<" ">>), JStr(<<"m", "1">>), JStr(<<" ", "m", "1">>),
                    JInt(5)}}

\* Lines 81-124.
do_POST(body) ==
    /\ http.pc = "idle" /\ cli.pc = "idle"
    /\ http' = Handle(body)
    /\ UNCHANGED <<envKey, envModel, reports, calls, cli, call, result>>

\* Lines 126-139: the one call of the generation API.
http_generate(outcome) ==
    /\ http.pc = "generating"
    /\ LET h == [http EXCEPT !.trace = Append(@, Event("generate", http.model)),
                             !.sent = Sent(http.model, http.destination, http.days,
                                           http.month, http.currency, http.daily_budget)]
       IN  http' = IF outcome.raised
                   THEN Responded([h EXCEPT !.genRaised = TRUE],
                                  Response(500, FALSE, None, None, "Failed to generate"))
                   ELSE [h EXCEPT !.pc = "persist", !.content = Content(outcome)]
    /\ UNCHANGED <<envKey, envModel, reports, calls, cli, call, result>>

\* Lines 141-145: the report is written, then the 200 response is sent.
http_persist(wr) ==
    /\ http.pc = "persist"
    /\ LET p == server_persist(reports, http.destination, http.content)
       IN  IF wr = "ok"
           THEN /\ reports' = p.dir
                /\ http' = Responded([http EXCEPT !.trace = Append(@, Event("write", p.filename))],
                                     Response(200, TRUE, http.content, p.out_path, ""))
           ELSE /\ reports' = reports
                /\ http' = Crashed(http)
    /\ UNCHANGED <<envKey, envModel, calls, cli, call, result>>

\* The server goes back to its accept loop.
http_finish ==
    /\ http.pc = "done"
    /\ http' = HttpIdle
    /\ UNCHANGED <<envKey, envModel, reports, calls, cli, call, result>>

----------------------------------------------------------------------------
(* The command-line front-end: main.py main().                             *)

Flags(destination, days, month, currency, budget, model) ==
    [destination |-> destination, days |-> days, month |-> month, currency |-> currency,
     budget |-> budget, model |-> model]

NoArgs == Flags(<<>>, 0, None, <<>>, NoneInt, None)

\* parse_args: --days defaults to 4, --currency to "INR", the others to None.
parse_args(flags) ==
    Flags(flags.destination,
          IF flags.days = NoneInt THEN 4 ELSE flags.days.v,
          flags.month,
          IF flags.currency = None THEN INR ELSE flags.currency,
          flags.budget,
          flags.model)

\* The flags a command line can give (--destination is required).
CliFlags ==
    {Flags(destination, days, month, None, budget, model) :
         destination \in {Rome, Bangs},
         days \in {NoneInt, Some(0), Some(3)},
         month \in {None, May},
         budget \in {NoneInt, Some(0)},
         model \in {None, <<>>, <<" ">>, <<"m", "1">>}}

CliIdle ==
    [pc |-> "idle", args |-> NoArgs, model |-> <<>>, content |-> <<>>, out_path |-> <<>>,
     trace |-> <<>>, sent |-> NoSent, exit |-> -1, genRaised |-> FALSE, uncaught |-> FALSE]

\* Lines 172-176: args.model or get_env_variable("MODEL") or "gemini-1.5-flash".
main_model(arg_model) == Or(Or(arg_model, get_env_variable("MODEL")), DefaultModel)

\* Line 190: days=max(1, args.days).
main_days(arg_days) == Max1(arg_days)

\* return code: the run is over.
Exit(c, code) == [c EXCEPT !.pc = "done", !.exit = code]

\* Lines 167-184.
main_start(flags) ==
    /\ cli.pc = "idle" /\ http.pc = "idle"
    /\ LET args == parse_args(flags)
           c == [CliIdle EXCEPT !.args = args, !.model = main_model(args.model)]
       IN  cli' = IF ~Truthy(get_env_variable("GOOGLE_API_KEY"))
                  THEN Exit([c EXCEPT !.trace = Append(@, Event("stderr", <<"ERROR: GOOGLE_API_KEY not set. Add it to .env or environment.">>))], 2)
                  ELSE [c EXCEPT !.pc = "generating"]
    /\ UNCHANGED <<envKey, envModel, reports, calls, http, call, result>>

\* Lines 186-197: generate_travel_guide, the one call of the generation API.
main_generate(outcome) ==
    /\ cli.pc = "generating"
    /\ LET c == [cli EXCEPT !.trace = Append(@, Event("generate", cli.model)),
                            !.sent = Sent(cli.model, cli.args.destination,
                                          main_days(cli.args.days), cli.args.month,
                                          cli.args.currency, cli.args.budget)]
       IN  cli' = IF outcome.raised
                  THEN Exit([c EXCEPT !.genRaised = TRUE,
                                      !.trace = Append(@, Event("stderr", <<"ERROR: Failed to generate guide">>))], 1)
                  ELSE [c EXCEPT !.pc = "print", !.content = Content(outcome)]
    /\ UNCHANGED <<envKey, envModel, reports, calls, http, call, result>>

\* Line 199: print(content).
main_print ==
    /\ cli.pc = "print"
    /\ cli' = [cli EXCEPT !.pc = "save", !.trace = Append(@, Event("stdout", cli.content))]
    /\ UNCHANGED <<envKey, envModel, reports, calls, http, call, result>>

\* Line 200: save_output_markdown; an OSError leaves main and the interpreter
\* ends with a traceback and exit status 1.
main_save(wr) ==
    /\ cli.pc = "save"
    /\ LET p == save_output_markdown(reports, cli.args.destination, cli.content)
       IN  IF wr = "ok"
           THEN /\ reports' = p.dir
                /\ cli' = [cli EXCEPT !.pc = "print_saved", !.out_path = p.out_path,
                                      !.trace = Append(@, Event("write", p.filename))]
           ELSE /\ reports' = reports
                /\ cli' = Exit([cli EXCEPT !.uncaught = TRUE], 1)
    /\ UNCHANGED <<envKey, envModel, calls, http, call, result>>

\* Lines 201-202: print the saved path, return 0.
main_print_saved ==
    /\ cli.pc = "print_saved"
    /\ cli' = Exit([cli EXCEPT !.trace = Append(@, Event("stdout", <<"\nSaved to: ">> \o cli.out_path))], 0)
    /\ UNCHANGED <<envKey, envModel, reports, calls, http, call, result>>

\* The process is gone; the command can be run again.
main_exit ==
    /\ cli.pc = "done"
    /\ cli' = CliIdle
    /\ UNCHANGED <<envKey, envModel, reports, calls, http, call, result>>

----------------------------------------------------------------------------
(* Spec: the two front-ends on one reports directory (the command is run   *)
(* from the project directory). They are separate processes that share     *)
(* only that directory, and each writes at most one file per request in    *)
(* one step, so the model runs one request at a time: every interleaving   *)
(* leaves the directory as one of these serial orders does.                *)

NoCall == [fn |-> "none", arg |-> <<>>]
NoResult == [done |-> FALSE, value |-> <<>>]

\* The values GOOGLE_API_KEY and MODEL can have when the programs start.
EnvKeys == {Unset, <<>>, <<" ">>, <<"k">>}
EnvModels == {Unset, <<>>, <<" ">>, <<"m", "2">>}

Init ==
    /\ envKey \in EnvKeys
    /\ envModel \in EnvModels
    /\ reports = EmptyDir
    /\ calls = <<>>
    /\ http = HttpIdle
    /\ cli = CliIdle
    /\ call = NoCall
    /\ result = NoResult

Next ==
    \/ \E body \in HttpBodies : do_POST(body)
    \/ \E outcome \in GenOutcomes : http_generate(outcome)
    \/ \E wr \in WriteOutcomes : http_persist(wr)
    \/ http_finish
    \/ \E flags \in CliFlags : main_start(flags)
    \/ \E outcome \in GenOutcomes : main_generate(outcome)
    \/ main_print
    \/ \E wr \in WriteOutcomes : main_save(wr)
    \/ main_print_saved
    \/ main_exit

Spec == Init /\ [][Next]_vars

----------------------------------------------------------------------------
(* SpecPersist: Persistence called directly, any destination and text in   *)
(* any order, from either program.                                         *)

MaxCalls == 3

RomeStripped == <<"R", "o", "m", "e", "!">>

PersistTexts == {<<"A">>, <<"B">>}

Called(fe, destination, content, wr) ==
    [fe |-> fe, destination |-> destination, content |-> content, returned |-> (wr = "ok")]

InitPersist ==
    /\ reports = EmptyDir
    /\ calls = <<>>
    /\ envKey = Unset /\ envModel = Unset
    /\ http = HttpIdle /\ cli = CliIdle
    /\ call = NoCall /\ result = NoResult

\* main.py save_output_markdown(destination, content)
main_persist_call(destination, content, wr) ==
    /\ Len(calls) < MaxCalls
    /\ reports' = IF wr = "ok" THEN save_output_markdown(reports, destination, content).dir
                  ELSE reports
    /\ calls' = Append(calls, Called("main", destination, content, wr))
    /\ UNCHANGED <<envKey, envModel, http, cli, call, result>>

\* server.py lines 141-143 with the handler's destination and content
server_persist_call(destination, content, wr) ==
    /\ Len(calls) < MaxCalls
    /\ reports' = IF wr = "ok" THEN server_persist(reports, destination, content).dir
                  ELSE reports
    /\ calls' = Append(calls, Called("server", destination, content, wr))
    /\ UNCHANGED <<envKey, envModel, http, cli, call, result>>

NextPersist ==
    \/ \E destination \in {RomeBang, Bangs}, content \in PersistTexts, wr \in WriteOutcomes :
           main_persist_call(destination, content, wr)
    \/ \E destination \in {RomeStripped, Bangs}, content \in PersistTexts, wr \in WriteOutcomes :
           server_persist_call(destination, content, wr)

SpecPersist == InitPersist /\ [][NextPersist]_vars

----------------------------------------------------------------------------
(* Inputs of the pure-function specifications: texts made of at most       *)
(* MaxRuns runs, each one character repeated RunLens times.                *)

MaxRuns == 3

RunLens == {1, 2, 99}

RunChars == {"a", " ", "-", "_", "!", "\t"}

Run(ch, n) == [i \in 1..n |-> ch]

RECURSIVE Texts(_)
Texts(k) ==
    IF k = 0 THEN {<<>>}
    ELSE LET shorter == Texts(k - 1)
         IN  shorter \cup {t \o Run(ch, n) : t \in shorter, ch \in RunChars, n \in RunLens}



----------------------------------------------------------------------------
(* SpecSan: sanitize_filename called on every bounded text.                *)

InitSan ==
    /\ call \in {[fn |-> f, arg |-> t] :
                   f \in {"main.sanitize_filename", "server.sanitize_filename"},
                   t \in Texts(MaxRuns)}
    /\ result = NoResult
    /\ envKey = Unset /\ envModel = Unset
    /\ reports = EmptyDir /\ calls = <<>>
    /\ http = HttpIdle /\ cli = CliIdle

CallSanitize ==
    /\ call.fn \in {"main.sanitize_filename", "server.sanitize_filename"}
    /\ ~result.done
    /\ result' = [done |-> TRUE,
                  value |-> IF call.fn = "main.sanitize_filename"
                            THEN sanitize_filename(call.arg)
                            ELSE server_sanitize_filename(call.arg)]
    /\ UNCHANGED <<envKey, envModel, reports, calls, http, cli, call>>

SpecSan == InitSan /\ [][CallSanitize]_vars

\* The characters of a destination that end up in the file name as themselves.
IsNamePart(ch) == isalnum(ch) \/ ch \in {"-", "_"}

\* Concatenation of a list of texts, by halves.
RECURSIVE Flatten(_)
Flatten(parts) ==
    IF parts = <<>> THEN <<>>
    ELSE IF Len(parts) = 1 THEN parts[1]
    ELSE LET h == Len(parts) \div 2
         IN  Flatten(SubSeq(parts, 1, h)) \o Flatten(SubSeq(parts, h + 1, Len(parts)))

\* What the claim describes, read off the positions of the destination: every
\* name character in order, with one underscore before it exactly when a space
\* lies between it and the name character before it.
Collapsed(name) ==
    LET IsPart(i) == IsNamePart(name[i])
        at == SelectSeq(Positions(name), IsPart)
        piece(j) ==
            IF j > 1 /\ \E i \in (at[j - 1] + 1)..(at[j] - 1) : name[i] = " "
            THEN <<"_", name[at[j]]>>
            ELSE <<name[at[j]]>>
    IN  Flatten([j \in 1..Len(at) |-> piece(j)])

\* C7: sanitize_filename returns a non-empty name of at most 100 characters, all
\* of them alphanumerics, hyphens or underscores; it is the destination's name
\* characters with each run of spaces between two of them turned into a single
\* underscore and leading and trailing spaces dropped, cut to 100 characters; a
\* destination without any name character yields "travel_guide".
C7_SanitizedName ==
    (call.fn \in {"main.sanitize_filename", "server.sanitize_filename"} /\ result.done) =>
        LET name == call.arg
            r == result.value
        IN  /\ Len(r) >= 1
            /\ Len(r) <= 100
            /\ \A i \in 1..Len(r) : IsNamePart(r[i])
            /\ IF \A i \in 1..Len(name) : ~IsNamePart(name[i])
               THEN r = travel_guide
               ELSE r = SubSeq(Collapsed(name), 1,
                               IF Len(Collapsed(name)) < 100 THEN Len(Collapsed(name)) ELSE 100)

\* A destination of more than 100 characters whose name characters are separated
\* by a run of two spaces: the run became the single underscore that ends the
\* 100-character name.
C7_Witness ==
    /\ call.fn = "server.sanitize_filename" /\ result.done
    /\ Len(call.arg) > 100
    /\ \E i \in 1..(Len(call.arg) - 2) :
           /\ IsNamePart(call.arg[i]) /\ call.arg[i + 1] = " " /\ call.arg[i + 2] = " "
    /\ Len(result.value) = 100
    /\ result.value[100] = "_"
    /\ result.value[99] = "a"

----------------------------------------------------------------------------
(* SpecPrompt: build_prompt called on bounded arguments.                   *)

PromptArgs ==
    [destination : {Rome, RomeBang, Bangs},
     days : {1, 4, 12},
     month : {None, <<>>, May},
     currency : {INR, USD, <<>>},
     daily_budget : {NoneInt, Some(0), Some(500), Some(-5)}]

InitPrompt ==
    /\ call \in {[fn |-> f, arg |-> a] :
                   f \in {"main.build_prompt", "server.build_prompt"}, a \in PromptArgs}
    /\ result = NoResult
    /\ envKey = Unset /\ envModel = Unset
    /\ reports = EmptyDir /\ calls = <<>>
    /\ http = HttpIdle /\ cli = CliIdle

CallBuildPrompt ==
    /\ call.fn \in {"main.build_prompt", "server.build_prompt"}
    /\ ~result.done
    /\ LET a == call.arg
       IN  result' =
               [done |-> TRUE,
                value |-> IF call.fn = "main.build_prompt"
                          THEN build_prompt(a.destination, a.days, a.month, a.currency,
                                            a.daily_budget)
                          ELSE server_build_prompt(a.destination, a.days, a.month,
                                                   a.currency, a.daily_budget)]
    /\ UNCHANGED <<envKey, envModel, reports, calls, http, cli, call>>

SpecPrompt == InitPrompt /\ [][CallBuildPrompt]_vars

\* The decimal numerals of the budgets of PromptArgs, written out.
Numeral(n) ==
    CASE n = 0   -> <<"0">>
      [] n = 500 -> <<"5", "0", "0">>
      [] n = -5  -> <<"-", "5">>

\* The budget-assumption sentence for budget b and currency c starts at position i of p.
SentenceAt(p, i, b, c) ==
    LET sentence == <<T_budget_head>> \o Numeral(b) \o <<" ">> \o c \o <<T_budget_tail>>
    IN  /\ i + Len(sentence) - 1 <= Len(p)
        /\ SubSeq(p, i, i + Len(sentence) - 1) = sentence

\* C10: the prompt built by build_prompt holds the budget-assumption sentence if
\* and only if the daily budget is set (a budget of 0 included); when set, the
\* sentence holds the budget value and the currency; when unset, no part of the
\* sentence appears anywhere in the prompt.
C10_BudgetSentence ==
    (call.fn \in {"main.build_prompt", "server.build_prompt"} /\ result.done) =>
        LET a == call.arg
            p == result.value
            heads == {i \in 1..Len(p) : p[i] = T_budget_head}
            tails == {i \in 1..Len(p) : p[i] = T_budget_tail}
        IN  IF a.daily_budget.some
            THEN /\ Cardinality(heads) = 1
                 /\ Cardinality(tails) = 1
                 /\ \A i \in heads : SentenceAt(p, i, a.daily_budget.v, a.currency)
            ELSE heads = {} /\ tails = {}

\* A prompt built by the server's build_prompt for a budget of 0: the sentence is there.
C10_Witness ==
    /\ call.fn = "server.build_prompt" /\ result.done
    /\ call.arg.daily_budget = Some(0)
    /\ call.arg.currency = USD
    /\ \E i \in 1..Len(result.value) : SentenceAt(result.value, i, 0, USD)

----------------------------------------------------------------------------
(* Persistence.                                                            *)

\* The file name a destination is saved under.
SavedName(destination) == sanitize_filename(destination) \o Ext

\* The calls that returned and saved under file name f.
SavesOf(f) == {i \in 1..Len(calls) : calls[i].returned /\ SavedName(calls[i].destination) = f}

\* The latest of them.
LastSaveOf(f) == CHOOSE i \in SavesOf(f) : \A j \in SavesOf(f) : j <= i

\* C6: after any sequence of Persistence calls the reports directory holds
\* exactly one file per distinct sanitized file name that was saved, and each
\* file holds the text of the latest call that saved under its name (last write
\* wins; a call counts as saving when it returned).
C6_LastWriteWins ==
    /\ DOMAIN reports =
           {SavedName(calls[i].destination) : i \in {j \in 1..Len(calls) : calls[j].returned}}
    /\ \A f \in DOMAIN reports : reports[f] = calls[LastSaveOf(f)].content

\* Two calls that returned, with different destinations of the same sanitized
\* name and different texts, the first from main.py and the second from
\* server.py: one file, holding the second text.
C6_Witness ==
    /\ Len(calls) = 2
    /\ calls[1] = Called("main", RomeBang, <<"A">>, "ok")
    /\ calls[2] = Called("server", RomeStripped, <<"B">>, "ok")
    /\ DOMAIN reports = {Rome \o Ext}
    /\ reports[Rome \o Ext] = <<"B">>

----------------------------------------------------------------------------
(* The front-ends.                                                         *)

\* The events of kind ev in a run's trace.
EventsOf(trace, ev) == {i \in 1..Len(trace) : trace[i].ev = ev}

\* A destination field the specification calls valid: a str that is not empty after trimming.
ValidDestination(v) == v.t = "str" /\ strip(v.s) # <<>>

\* The handler sent exactly one response, with this status and ok = FALSE.
RefusedWith(h, status) ==
    /\ Len(h.responses) = 1
    /\ h.responses[1].status = status
    /\ h.responses[1].ok = FALSE

\* C1: a POST whose JSON body has a destination that is not a non-empty string
\* after trimming is answered 400 with ok = false, without a call of the
\* generation API and without a report being written.
C1_BadDestinationRefused ==
    (http.pc = "done" /\ http.req.kind = "object" /\ ~ValidDestination(http.req.destination)) =>
        /\ RefusedWith(http, 400)
        /\ EventsOf(http.trace, "generate") = {}
        /\ EventsOf(http.trace, "write") = {}

\* C2: with GOOGLE_API_KEY unset or empty, a command-line run ends with exit
\* code 2 and an HTTP request that passed input validation is answered 500 with
\* ok = false; neither calls the generation API nor writes a report.
C2_MissingKey ==
    envKey \in {Unset, <<>>} =>
        /\ cli.pc = "done" =>
               /\ cli.exit = 2
               /\ EventsOf(cli.trace, "generate") = {}
               /\ EventsOf(cli.trace, "write") = {}
        /\ (http.pc = "done" /\ http.req.kind = "object"
                /\ ValidDestination(http.req.destination)) =>
               /\ RefusedWith(http, 500)
               /\ EventsOf(http.trace, "generate") = {}
               /\ EventsOf(http.trace, "write") = {}

\* C3: every POST to /api/generate is answered with exactly one JSON response
\* of status 200, 400 or 500, with ok = true exactly when the status is 200.
C3_OneResponse ==
    http.pc = "done" =>
        /\ Len(http.responses) = 1
        /\ http.responses[1].status \in {200, 400, 500}
        /\ http.responses[1].ok <=> (http.responses[1].status = 200)

\* The key as main.py sees it: missing unless it has a non-blank character.
KeyMissing == ~(Truthy(envKey) /\ strip(envKey) # <<>>)

\* C4: a command-line run ends with exit code 0, 1 or 2: 2 exactly when the
\* credential is missing, 1 exactly when the Guide Generator raised, 0 exactly
\* when generation succeeded, and then the guide was printed, the report
\* written and the saved path printed, in that order.
C4_ExitCodes ==
    cli.pc = "done" =>
        LET generated == EventsOf(cli.trace, "generate") # {}
        IN  /\ cli.exit \in {0, 1, 2}
            /\ (cli.exit = 2) <=> KeyMissing
            /\ (cli.exit = 1) <=> (generated /\ cli.genRaised)
            /\ (cli.exit = 0) <=> (generated /\ ~cli.genRaised)
            /\ (cli.exit = 0) =>
                   /\ Len(cli.trace) = 4
                   /\ cli.trace[2] = Event("stdout", cli.content)
                   /\ cli.trace[3] = Event("write", SavedName(cli.args.destination))
                   /\ cli.trace[4] = Event("stdout", <<"\nSaved to: ">> \o cli.out_path)

\* A finished run wrote a report exactly when its one generation call returned,
\* and the report holds the text given back.
WrittenIffGenerated(run, returned_text) ==
    LET generates == EventsOf(run.trace, "generate")
        writes == EventsOf(run.trace, "write")
    IN  /\ Cardinality(generates) <= 1
        /\ Cardinality(writes) <= 1
        /\ (writes # {}) <=> (generates # {} /\ ~run.genRaised)
        /\ \A i \in writes :
               /\ run.trace[i].text \in DOMAIN reports
               /\ reports[run.trace[i].text] = returned_text

\* C5: in both front-ends a report is written during a request if and only if
\* the single call of the generation API returned without raising; the text
\* written is the text handed back (the markdown of the 200 response, whose
\* saved field is the path of that file, or the text the command printed).
C5_WrittenIffGenerated ==
    /\ cli.pc = "done" =>
           /\ WrittenIffGenerated(cli, cli.content)
           /\ EventsOf(cli.trace, "write") # {} => Event("stdout", cli.content) \in
                  {cli.trace[i] : i \in 1..Len(cli.trace)}
    /\ http.pc = "done" =>
           /\ WrittenIffGenerated(http, http.content)
           /\ EventsOf(http.trace, "write") # {} =>
                  /\ Len(http.responses) = 1
                  /\ http.responses[1].status = 200
                  /\ http.responses[1].markdown = http.content
                  /\ http.responses[1].saved =
                         <<"PROJECT_DIR/reports/">> \o SavedName(http.destination)

\* The flag a command line gives for the same integer as a request field.
AsFlag(v) == IF v.t = "int" THEN Some(v.n) ELSE NoneInt

\* C8: for every integer days (0 and negatives included) or no days, and every
\* integer budget or none, the HTTP front-end hands the Prompt Builder the same
\* (days, budget) as the command line does for the same values.
C8_SameDaysBudget ==
    (EventsOf(http.trace, "generate") # {}
        /\ http.req.days.t \in {"int", "absent"}
        /\ http.req.budget.t \in {"int", "absent"}) =>
        LET args == parse_args(Flags(http.destination, AsFlag(http.req.days), None, None,
                                     AsFlag(http.req.budget), None))
        IN  /\ http.sent.days = main_days(args.days)
            /\ http.sent.daily_budget = args.budget

\* C9: for the same explicit value and the same MODEL value, the HTTP front-end
\* passes the generation API the model identifier the command line passes.
C9_SameModel ==
    (EventsOf(http.trace, "generate") # {} /\ http.req.model.t \in {"str", "absent"}) =>
        http.sent.model =
            main_model(IF http.req.model.t = "str" THEN http.req.model.s ELSE None)

====
